---- MODULE Spec2Model ----
(***************************************************************************)
(* Client of the Military Asset Management application.                    *)
(*                                                                         *)
(* Part 1: the session/auth flow of src/src/contexts/AuthContext.tsx       *)
(*   (AuthProvider: the mount effect initAuth, login, logout, register),   *)
(*   checked under Spec.                                                   *)
(* Part 2: the transfer-creation page of src/src/pages/transfers/new.tsx,  *)
(*   checked under TransferSpec.                                           *)
(*                                                                         *)
(* JavaScript is single-threaded: a handler runs uninterrupted from one    *)
(* await to the next, so every action below is one such run.  A remote     *)
(* call is split into the step that issues it and the step in which its    *)
(* promise settles.                                                        *)
(***************************************************************************)
EXTENDS Integers, Sequences, FiniteSets

VARIABLES
    token,            \* localStorage['token'], NoToken when the key is absent
    user,             \* authStore.user
    isAuthenticated,  \* authStore.isAuthenticated
    isInitialized,    \* authStore.isInitialized
    pathname,         \* router.pathname
    mounted,          \* AuthProvider is mounted (its mount effect has run)
    loginPending,     \* login calls awaiting authService.login
    logoutPending,    \* logout calls awaiting authService.logout
    ev,               \* history: the step just taken and what its caller got
    loginSucceeded,   \* history: a login call has succeeded since this load
    initRuns,         \* history: runs of initAuth's body in this load
    initThrew,        \* history: initAuth's try block threw in this load
    lastWrite,        \* history: what the login or logout call that settled last wrote
    page,             \* NewTransferPage: "idle" (not shown), "rendered", "mounted"
    query,            \* router.query.asset, "" when the URL names no asset
    values,           \* formik.values
    availableAssets,  \* the _id's of the assets in availableAssets
    selectedAsset,    \* the _id of selectedAsset, Null when there is none
    isLoading,        \* NewTransferPage.isLoading
    isSubmitting,     \* NewTransferPage.isSubmitting
    fetchPending,     \* assetService.getAssets is in flight
    createPending,    \* transferService.createTransfer is in flight
    createArg,        \* the values the latest createTransfer call was given
    notifications,    \* notifications added to the notification store
    pageEv,           \* history: the page's step just taken
    clash             \* history: the asset effect set fromBase to the chosen toBase

authVars == <<token, user, isAuthenticated, isInitialized, pathname, mounted,
              loginPending, logoutPending, ev, loginSucceeded, initRuns,
              initThrew, lastWrite>>

\* The session without the route
authRest == <<token, user, isAuthenticated, isInitialized, mounted,
              loginPending, logoutPending, ev, loginSucceeded, initRuns,
              initThrew, lastWrite>>

pageVars == <<page, query, values, availableAssets, selectedAsset, isLoading,
              isSubmitting, fetchPending, createPending, createArg,
              notifications, pageEv, clash>>

vars == <<authVars, pageVars>>

----------------------------------------------------------------------------
(* Values *)

\* localStorage.getItem('token') === null
NoToken == "<no token>"
\* JavaScript null and undefined, as values of authStore.user
Null == "<null>"
Undefined == "<undefined>"

\* Bound: remote calls of one kind that may be in flight together
MaxPending == 2
\* Bound: initRuns stops counting here
InitRunsCap == 2

\* Tokens and users the remote service may answer with
RemoteTokens == {"t1", "t2"}
RemoteUsers == {"admin", "officerAlpha", "commander"}

\* localStorage.setItem stores String(value)
StringOf(v) == IF v = Undefined THEN "undefined" ELSE v

StoredTokens == {StringOf(t) : t \in RemoteTokens \cup {Undefined}}

\* The routes initAuth leaves alone
PublicRoutes == {"/login", "/register", "/forgot-password"}
\* Some routes of the application that are not public
ProtectedRoutes == {"/", "/transfers", "/transfers/new", "/404"}
Routes == PublicRoutes \cup ProtectedRoutes

\* A user is present when it is neither null nor undefined
Present(u) == u \notin {Null, Undefined}

\* What authService.login resolves with; a field the response lacks reads
\* as undefined
LoginResponses == [token : RemoteTokens \cup {Undefined},
                   user : RemoteUsers \cup {Undefined}]

\* Where initAuth's try block may throw: at one of its calls, or nowhere.
\* The catch block that handles the throw is taken to run to its end.
ThrowPoints == {"none", "removeItem", "setUser", "setIsAuthenticated", "replace"}

\* new.tsx 43, 63, 98: the role and the assigned base of a user ("" when the
\* user has none)
RoleOf(u) ==
    CASE u = "admin" -> "Admin"
      [] u = "officerAlpha" -> "LogisticsOfficer"
      [] u = "commander" -> "BaseCommander"
      [] OTHER -> ""

AssignedBaseOf(u) ==
    CASE u = "officerAlpha" -> "Base Alpha"
      [] u = "commander" -> "Base Bravo"
      [] OTHER -> ""

\* new.tsx 16
bases == {"Base Alpha", "Base Bravo", "Base Charlie"}

\* The assets the remote service knows: _id, base and available quantity
Catalogue == {"a1", "a2", "a3"}

BaseOf(a) ==
    CASE a = "a1" -> "Base Alpha"
      [] a = "a2" -> "Base Bravo"
      [] a = "a3" -> "Base Alpha"
      [] OTHER -> ""

AvailableOf(a) ==
    CASE a = "a1" -> 2
      [] a = "a2" -> 1
      [] OTHER -> 0

\* Asset ids a URL may carry: none, known ones, an unknown one
QueryAssets == {"", "a1", "a3", "a9"}

\* Bound: the largest whole quantity typed into the form
MaxQuantity == 3

\* The quantity field holds a number; it is kept here in halves, so that
\* 1.5 (3 halves) is a value: -1, 0, 1.5 and 1..MaxQuantity
Quantities == {-2, 0, 3} \cup {2 * k : k \in 1..MaxQuantity}

IsWhole(q) == q % 2 = 0

\* What a failed createTransfer carries as error.response?.data?.error
ErrorBodies == {Undefined, "", "Insufficient stock"}

\* The _id's of created transfers
TransferIds == {"t1", "t2"}

----------------------------------------------------------------------------
(* The session as one record, and the statements that change it *)

Session == [token |-> token, user |-> user, isAuthenticated |-> isAuthenticated,
            isInitialized |-> isInitialized, pathname |-> pathname]

removeItem(s) == [s EXCEPT !.token = NoToken]
setItem(s, v) == [s EXCEPT !.token = StringOf(v)]
setUser(s, u) == [s EXCEPT !.user = u]
setIsAuthenticated(s, b) == [s EXCEPT !.isAuthenticated = b]
setIsInitialized(s, b) == [s EXCEPT !.isInitialized = b]
routerReplace(s, r) == [s EXCEPT !.pathname = r]
routerPush(s, r) == [s EXCEPT !.pathname = r]

\* AuthContext.tsx 42-44, 54-56, 84-86, 103-105: the three clearing statements
clearSession(s) == setIsAuthenticated(setUser(removeItem(s), Null), FALSE)

\* AuthContext.tsx 47-51
redirectUnlessPublic(s) ==
    IF s.pathname \notin PublicRoutes THEN routerReplace(s, "/login") ELSE s

\* Whether the try block of initAuth throws when the statement at throwAt does
\* (router.replace is only reached on a route that is not public)
initThrows(s, throwAt) ==
    \/ throwAt \in {"removeItem", "setUser", "setIsAuthenticated"}
    \/ throwAt = "replace" /\ s.pathname \notin PublicRoutes

\* AuthContext.tsx 40-51: the try block, up to the statement that throws
initTry(s, throwAt) ==
    CASE throwAt = "removeItem" -> s
      [] throwAt = "setUser" -> removeItem(s)
      [] throwAt = "setIsAuthenticated" -> setUser(removeItem(s), Null)
      [] throwAt = "replace" /\ s.pathname \notin PublicRoutes -> clearSession(s)
      [] OTHER -> redirectUnlessPublic(clearSession(s))

\* Mutant of initAuth: the stored token is left in place
initAuthKeepsToken(s, throwAt) ==
    setIsInitialized(
        IF initThrows(s, throwAt)
          THEN setIsAuthenticated(setUser(s, Null), FALSE)
          ELSE redirectUnlessPublic(setIsAuthenticated(setUser(s, Null), FALSE)),
        TRUE)

\* Mutant of initAuth: a stored token restores the session
initAuthRestoresSession(s, throwAt) ==
    setIsInitialized(
        IF s.token # NoToken
          THEN setIsAuthenticated(s, TRUE)
          ELSE IF initThrows(s, throwAt)
                 THEN clearSession(s)
                 ELSE redirectUnlessPublic(clearSession(s)),
        TRUE)

\* AuthContext.tsx 39-60: try, catch, finally
initAuth(s, throwAt) ==
    LET tried == initTry(s, throwAt)
        caught == IF initThrows(s, throwAt) THEN clearSession(tried) ELSE tried
    IN  setIsInitialized(caught, TRUE)

\* Mutant of skipInit: the guard is missing
neverSkipInit(s) == FALSE

\* AuthContext.tsx 34: the guard of the mount effect
skipInit(s) == s.isInitialized

\* Mutant of loginResolved: a session that already has a user keeps it
loginResolvedKeepsUser(s, resp) ==
    IF s.isAuthenticated /\ Present(s.user)
      THEN setItem(s, resp.token)
      ELSE setIsAuthenticated(setUser(setItem(s, resp.token), resp.user), TRUE)

\* Mutant of logoutFinally: the token stays in local storage
logoutKeepsToken(s) ==
    routerReplace(setIsAuthenticated(setUser(s, Null), FALSE), "/login")

\* Mutant of loginResolved: the token is not stored
loginResolvedNoStore(s, resp) ==
    setIsAuthenticated(setUser(s, resp.user), TRUE)

\* AuthContext.tsx 73-77: after authService.login resolved with resp
loginResolved(s, resp) ==
    setIsAuthenticated(setUser(setItem(s, resp.token), resp.user), TRUE)

\* Mutant of loginRejected: the session is left as it was
loginRejectedKeepsSession(s) == s

\* AuthContext.tsx 80-86: after authService.login rejected
loginRejected(s) == clearSession(s)

\* Mutant of logoutFinally: the redirect is missing
logoutWithoutRedirect(s) == clearSession(s)

\* AuthContext.tsx 101-107: the finally block of logout
logoutFinally(s) == routerReplace(clearSession(s), "/login")

\* AuthContext.tsx 110-115
registerBody(s) == routerPush(s, "/login")

Install(s) ==
    /\ token' = s.token
    /\ user' = s.user
    /\ isAuthenticated' = s.isAuthenticated
    /\ isInitialized' = s.isInitialized
    /\ pathname' = s.pathname

\* A response that is not one (the step made no remote login call, or the
\* call failed)
NoResponse == [token |-> Undefined, user |-> Undefined]

\* The history of one step: the operation, how the promise it returned to
\* its caller settled and with what, how its remote call went and with what
\* response, and the session the step started from
Event(op, outcome, value, remote, resp) ==
    [op |-> op, outcome |-> outcome, value |-> value, remote |-> remote,
     resp |-> resp, before |-> Session]

Quiet(op, value) == Event(op, "none", value, "none", NoResponse)

\* AuthContext.tsx 73-77, 84-86, 103-105: the token, user and flag a login or
\* logout call writes once its remote call has settled; by is "none" while no
\* call has settled in this load
Written(by, tok, u, auth) ==
    [by |-> by, token |-> tok, user |-> u, isAuthenticated |-> auth]

NothingWritten == Written("none", NoToken, Null, FALSE)

----------------------------------------------------------------------------
(* Actions of the auth flow *)

\* A page load: the store starts empty, local storage keeps what it held,
\* the address bar names any route, calls in flight die with the old page
LoadApp(r) ==
    /\ token' = token
    /\ user' = Null
    /\ isAuthenticated' = FALSE
    /\ isInitialized' = FALSE
    /\ pathname' = r
    /\ mounted' = FALSE
    /\ loginPending' = 0
    /\ logoutPending' = 0
    /\ loginSucceeded' = FALSE
    /\ initRuns' = 0
    /\ initThrew' = FALSE
    /\ lastWrite' = NothingWritten
    /\ ev' = Quiet("load", "none")
    /\ UNCHANGED pageVars

\* AuthContext.tsx 30-63: the mount effect of AuthProvider
MountEffect(throwAt) ==
    /\ ~mounted
    /\ mounted' = TRUE
    /\ IF skipInit(Session)
         THEN /\ Install(Session)
              /\ initRuns' = initRuns
              /\ initThrew' = initThrew
              /\ ev' = Quiet("initSkip", "none")
         ELSE /\ Install(initAuth(Session, throwAt))
              /\ initRuns' = IF initRuns < InitRunsCap THEN initRuns + 1 ELSE initRuns
              /\ initThrew' = (initThrew \/ initThrows(Session, throwAt))
              /\ ev' = Event("init",
                             IF initThrows(Session, throwAt) THEN "rejected" ELSE "resolved",
                             throwAt, "none", NoResponse)
    /\ UNCHANGED <<loginPending, logoutPending, loginSucceeded, lastWrite>>
    /\ UNCHANGED pageVars

\* AuthProvider is unmounted; calls in flight are not cancelled
Unmount ==
    /\ mounted
    /\ mounted' = FALSE
    /\ ev' = Quiet("unmount", "none")
    /\ UNCHANGED <<token, user, isAuthenticated, isInitialized, pathname,
                   loginPending, logoutPending, loginSucceeded, initRuns, initThrew,
                   lastWrite>>
    /\ UNCHANGED pageVars

\* AuthContext.tsx 65-70: login up to its await
LoginCall ==
    /\ mounted
    /\ loginPending < MaxPending
    /\ loginPending' = loginPending + 1
    /\ ev' = Quiet("loginCall", "none")
    /\ UNCHANGED <<token, user, isAuthenticated, isInitialized, pathname,
                   mounted, logoutPending, loginSucceeded, initRuns, initThrew,
                   lastWrite>>
    /\ UNCHANGED pageVars

\* AuthContext.tsx 70-79: authService.login resolved with resp
LoginResolve(resp) ==
    /\ loginPending > 0
    /\ loginPending' = loginPending - 1
    /\ Install(loginResolved(Session, resp))
    /\ loginSucceeded' = TRUE
    /\ lastWrite' = Written("login", StringOf(resp.token), resp.user, TRUE)
    /\ ev' = Event("login", "resolved", resp.user, "ok", resp)
    /\ UNCHANGED <<mounted, logoutPending, initRuns, initThrew>>
    /\ UNCHANGED pageVars

\* AuthContext.tsx 80-89: authService.login rejected
LoginReject ==
    /\ loginPending > 0
    /\ loginPending' = loginPending - 1
    /\ Install(loginRejected(Session))
    /\ lastWrite' = Written("login", NoToken, Null, FALSE)
    /\ ev' = Event("login", "rejected", "error", "failed", NoResponse)
    /\ UNCHANGED <<mounted, logoutPending, loginSucceeded, initRuns, initThrew>>
    /\ UNCHANGED pageVars

\* AuthContext.tsx 92-97: logout up to its await
LogoutCall ==
    /\ mounted
    /\ logoutPending < MaxPending
    /\ logoutPending' = logoutPending + 1
    /\ ev' = Quiet("logoutCall", "none")
    /\ UNCHANGED <<token, user, isAuthenticated, isInitialized, pathname,
                   mounted, loginPending, loginSucceeded, initRuns, initThrew,
                   lastWrite>>
    /\ UNCHANGED pageVars

\* AuthContext.tsx 97-108: authService.logout settled; remoteOk tells how
LogoutSettle(remoteOk) ==
    /\ logoutPending > 0
    /\ logoutPending' = logoutPending - 1
    /\ Install(logoutFinally(Session))
    /\ lastWrite' = Written("logout", NoToken, Null, FALSE)
    /\ ev' = Event("logout", "resolved", Undefined,
                   IF remoteOk THEN "ok" ELSE "failed", NoResponse)
    /\ UNCHANGED <<mounted, loginPending, loginSucceeded, initRuns, initThrew>>
    /\ UNCHANGED pageVars

\* AuthContext.tsx 110-115
Register ==
    /\ mounted
    /\ Install(registerBody(Session))
    /\ ev' = Event("register", "resolved", Undefined, "none", NoResponse)
    /\ UNCHANGED <<mounted, loginPending, logoutPending, loginSucceeded, initRuns, initThrew,
                   lastWrite>>
    /\ UNCHANGED pageVars

\* Client-side navigation by the pages: to a public route at any time, to
\* another route only for an authenticated session
Navigate(r) ==
    /\ mounted
    /\ isAuthenticated \/ r \in PublicRoutes
    /\ pathname' = r
    /\ ev' = Quiet("navigate", r)
    /\ UNCHANGED <<token, user, isAuthenticated, isInitialized, mounted,
                   loginPending, logoutPending, loginSucceeded, initRuns, initThrew,
                   lastWrite>>
    /\ UNCHANGED pageVars

\* part_000 20-22: the "Go back home" link of the not-found page
Custom404Home ==
    /\ mounted
    /\ pathname = "/404"
    /\ pathname' = "/"
    /\ ev' = Quiet("link", "/")
    /\ UNCHANGED <<token, user, isAuthenticated, isInitialized, mounted,
                   loginPending, logoutPending, loginSucceeded, initRuns, initThrew,
                   lastWrite>>
    /\ UNCHANGED pageVars

\* NewTransferPage is not on screen
PageIdle ==
    /\ page = "idle"
    /\ query = ""
    /\ values = [asset |-> "", fromBase |-> "", toBase |-> "", quantity |-> 2]
    /\ availableAssets = {}
    /\ selectedAsset = Null
    /\ isLoading = FALSE
    /\ isSubmitting = FALSE
    /\ fetchPending = FALSE
    /\ createPending = FALSE
    /\ createArg = values
    /\ notifications = 0
    /\ clash = FALSE
    /\ pageEv = [op |-> "idle", outcome |-> "none", sent |-> values,
                 toast |-> "none", reply |-> "none"]

Init ==
    /\ token \in StoredTokens \cup {NoToken}
    /\ user = Null
    /\ isAuthenticated = FALSE
    /\ isInitialized = FALSE
    /\ pathname \in Routes
    /\ mounted = FALSE
    /\ loginPending = 0
    /\ logoutPending = 0
    /\ loginSucceeded = FALSE
    /\ initRuns = 0
    /\ initThrew = FALSE
    /\ lastWrite = NothingWritten
    /\ ev = Quiet("load", "none")
    /\ PageIdle

Next ==
    \/ \E r \in Routes : LoadApp(r)
    \/ \E throwAt \in ThrowPoints : MountEffect(throwAt)
    \/ Unmount
    \/ LoginCall
    \/ \E resp \in LoginResponses : LoginResolve(resp)
    \/ LoginReject
    \/ LogoutCall
    \/ \E remoteOk \in BOOLEAN : LogoutSettle(remoteOk)
    \/ Register
    \/ \E r \in Routes : Navigate(r)
    \/ Custom404Home

Spec == Init /\ [][Next]_vars

----------------------------------------------------------------------------
(* The transfer-creation page, src/src/pages/transfers/new.tsx *)

\* new.tsx 96-102: formik's initialValues
initialValues(u, assetId) ==
    [asset |-> assetId,
     fromBase |-> IF RoleOf(u) = "LogisticsOfficer" /\ AssignedBaseOf(u) # ""
                    THEN AssignedBaseOf(u) ELSE "",
     toBase |-> "",
     quantity |-> 2]

\* Mutant of TransferSchemaErrors: the notOneOf test on toBase is missing
TransferSchemaWithoutNotOneOf(v) ==
    {f \in {"asset", "fromBase", "toBase"} : v[f] = ""}
    \cup (IF v.quantity > 0 /\ IsWhole(v.quantity) THEN {} ELSE {"quantity"})

\* new.tsx 18-29: the fields of v that TransferSchema rejects
TransferSchemaErrors(v) ==
    {f \in {"asset", "fromBase", "toBase"} : v[f] = ""}
    \cup (IF v.toBase = v.fromBase THEN {"toBase"} ELSE {})
    \cup (IF v.quantity > 0 /\ IsWhole(v.quantity) THEN {} ELSE {"quantity"})

\* Mutant of Forbidden: the two role tests are joined by "or"
ForbiddenWithOr(u) ==
    Present(u) /\ (RoleOf(u) # "Admin" \/ RoleOf(u) # "LogisticsOfficer")

\* new.tsx 43 and 149: a present user whose role may not create transfers
Forbidden(u) ==
    Present(u) /\ RoleOf(u) # "Admin" /\ RoleOf(u) # "LogisticsOfficer"

\* new.tsx 61-68: the assets of the response that are kept
filterAssets(u, assets) ==
    LET ofBase == IF RoleOf(u) = "LogisticsOfficer" /\ AssignedBaseOf(u) # ""
                    THEN {a \in assets : BaseOf(a) = AssignedBaseOf(u)}
                    ELSE assets
    IN  {a \in ofBase : AvailableOf(a) > 0}

\* Array.find by _id: the asset, or Null
findAsset(assets, id) == IF id \in assets THEN id ELSE Null

\* new.tsx 72-80: the asset named by the URL is selected when it was kept
selectQueryAsset(v, sel, assets, assetId) ==
    IF assetId # "" /\ findAsset(assets, assetId) # Null
      THEN [selected |-> assetId,
            values |-> [v EXCEPT !.asset = assetId, !.fromBase = BaseOf(assetId)]]
      ELSE [selected |-> sel, values |-> v]

\* new.tsx 138-146: the effect on formik.values.asset and availableAssets
selectedAssetEffect(v, assets) ==
    LET asset == findAsset(assets, v.asset)
    IN  [selected |-> asset,
         values |-> IF asset # Null THEN [v EXCEPT !.fromBase = BaseOf(asset)] ELSE v]

\* Mutant of exceedsAvailable: the check lets one unit too many through
exceedsAvailableOffByOne(v, sel) ==
    sel # Null /\ v.quantity > 2 * (AvailableOf(sel) + 1)

\* new.tsx 109: the quantity check of onSubmit (quantities are in halves)
exceedsAvailable(v, sel) ==
    sel # Null /\ v.quantity > 2 * AvailableOf(sel)

\* Mutant of errorMessage: the service's message is dropped
errorMessageAlwaysDefault(body) == "Failed to create transfer"

\* new.tsx 130
errorMessage(body) ==
    IF body \in {Undefined, ""} THEN "Failed to create transfer" ELSE body

\* new.tsx 126
transferRoute(id) == "/transfers/" \o id

\* new.tsx 148-185: the form is on screen
FormShown ==
    /\ page = "mounted"
    /\ pathname = "/transfers/new"
    /\ ~Forbidden(user)
    /\ ~(isLoading /\ availableAssets = {})
    /\ availableAssets # {}

\* The history of one step of the page: the operation, how it ended, the
\* form values it ended with (for a createTransfer call: the values the call
\* was given), the toast
\* and, for a settled createTransfer call, what the service answered (the
\* _id of the transfer created, or the error body)
PageReply(op, outcome, sent, toast, reply) ==
    [op |-> op, outcome |-> outcome, sent |-> sent, toast |-> toast,
     reply |-> reply]

PageEvent(op, outcome, sent, toast) == PageReply(op, outcome, sent, toast, "none")

\* Whether a change of the form makes the asset effect's fromBase meet toBase
Clashes(old, new) ==
    new.toBase # "" /\ new.fromBase = new.toBase /\ old.fromBase # new.fromBase

\* new.tsx 31-39, 95-103: the page after its first render
PageRendered(u, assetId) ==
    /\ page = "rendered"
    /\ query = assetId
    /\ values = initialValues(u, assetId)
    /\ availableAssets = {}
    /\ selectedAsset = Null
    /\ isLoading = TRUE
    /\ isSubmitting = FALSE
    /\ fetchPending = FALSE
    /\ createPending = FALSE
    /\ createArg = initialValues(u, assetId)
    /\ notifications = 0
    /\ clash = FALSE
    /\ pageEv = [op |-> "render", outcome |-> "none",
                 sent |-> initialValues(u, assetId), toast |-> "none",
                 reply |-> "none"]

\* new.tsx 42-47, 50-93, 138-146: the effects after the first render
PageMount ==
    /\ page = "rendered"
    /\ page' = "mounted"
    /\ pathname' = IF Forbidden(user) THEN "/transfers" ELSE pathname
    /\ fetchPending' = Present(user)
    /\ isLoading' = TRUE
    /\ LET eff == selectedAssetEffect(values, availableAssets)
       IN  /\ selectedAsset' = eff.selected
           /\ values' = eff.values
    /\ pageEv' = PageEvent("mount", "none", values',
                           IF Forbidden(user)
                             THEN "You do not have permission to create transfers"
                             ELSE "none")
    /\ UNCHANGED <<query, availableAssets, isSubmitting, createPending, createArg,
                   notifications, clash>>
    /\ UNCHANGED authRest

\* new.tsx 56-80, 85-87, 138-146: getAssets resolved with the assets `assets`
FetchResolve(assets) ==
    /\ fetchPending
    /\ fetchPending' = FALSE
    /\ isLoading' = FALSE
    /\ LET kept == filterAssets(user, assets)
           byQuery == selectQueryAsset(values, selectedAsset, kept, query)
           eff == selectedAssetEffect(byQuery.values, kept)
       IN  /\ availableAssets' = kept
           /\ selectedAsset' = eff.selected
           /\ values' = eff.values
           /\ clash' = (clash \/ Clashes(values, eff.values))
    /\ pageEv' = PageEvent("fetch", "resolved", values', "none")
    /\ UNCHANGED <<page, query, isSubmitting, createPending, createArg, notifications>>
    /\ UNCHANGED <<pathname, authRest>>

\* new.tsx 82-87: getAssets rejected
FetchReject ==
    /\ fetchPending
    /\ fetchPending' = FALSE
    /\ isLoading' = FALSE
    /\ pageEv' = PageEvent("fetch", "rejected", values, "Failed to load assets")
    /\ UNCHANGED <<page, query, values, availableAssets, selectedAsset,
                   isSubmitting, createPending, createArg, notifications, clash>>
    /\ UNCHANGED <<pathname, authRest>>

\* new.tsx 193-210, 138-146: the asset select (disabled when the URL names an
\* asset) and the effect that follows the change
ChangeAsset(a) ==
    /\ FormShown
    /\ query = ""
    /\ a \in availableAssets \cup {""}
    /\ LET eff == selectedAssetEffect([values EXCEPT !.asset = a], availableAssets)
       IN  /\ selectedAsset' = eff.selected
           /\ values' = eff.values
           /\ clash' = (clash \/ Clashes(values, eff.values))
    /\ pageEv' = PageEvent("changeAsset", "none", values', "none")
    /\ UNCHANGED <<page, query, availableAssets, isLoading, isSubmitting,
                   fetchPending, createPending, createArg, notifications>>
    /\ UNCHANGED <<pathname, authRest>>

\* new.tsx 223-240: the fromBase select
ChangeFromBase(b) ==
    /\ FormShown
    /\ ~(RoleOf(user) = "LogisticsOfficer" /\ AssignedBaseOf(user) # "")
    /\ selectedAsset = Null
    /\ b \in bases \cup {""}
    /\ values' = [values EXCEPT !.fromBase = b]
    /\ clash' = FALSE
    /\ pageEv' = PageEvent("changeFromBase", "none", values', "none")
    /\ UNCHANGED <<page, query, availableAssets, selectedAsset, isLoading,
                   isSubmitting, fetchPending, createPending, createArg, notifications>>
    /\ UNCHANGED <<pathname, authRest>>

\* new.tsx 253-271: the toBase select offers the bases other than fromBase
ChangeToBase(b) ==
    /\ FormShown
    /\ b \in (bases \ {values.fromBase}) \cup {""}
    /\ values' = [values EXCEPT !.toBase = b]
    /\ clash' = FALSE
    /\ pageEv' = PageEvent("changeToBase", "none", values', "none")
    /\ UNCHANGED <<page, query, availableAssets, selectedAsset, isLoading,
                   isSubmitting, fetchPending, createPending, createArg, notifications>>
    /\ UNCHANGED <<pathname, authRest>>

\* new.tsx 284-296: the quantity input
ChangeQuantity(q) ==
    /\ FormShown
    /\ values' = [values EXCEPT !.quantity = q]
    /\ pageEv' = PageEvent("changeQuantity", "none", values', "none")
    /\ UNCHANGED <<page, query, availableAssets, selectedAsset, isLoading,
                   isSubmitting, fetchPending, createPending, createArg, notifications,
                   clash>>
    /\ UNCHANGED <<pathname, authRest>>

\* new.tsx 185, 341-345, 103-116: the submit button (disabled while
\* isSubmitting); formik validates the values against TransferSchema and
\* calls onSubmit when nothing is rejected
\* (the browser's own min/max test of the quantity input, which can only
\* keep a submission from happening, is left out)
Submit ==
    /\ FormShown
    /\ ~isSubmitting
    /\ IF TransferSchemaErrors(values) # {}
         THEN /\ pageEv' = PageEvent("submit", "invalid", values, "none")
              /\ UNCHANGED <<isSubmitting, createPending, createArg>>
         ELSE IF exceedsAvailable(values, selectedAsset)
                THEN /\ pageEv' = PageEvent("submit", "rejected", values,
                                            "Cannot transfer more than available quantity")
                     /\ isSubmitting' = FALSE
                     /\ UNCHANGED <<createPending, createArg>>
                ELSE /\ pageEv' = PageEvent("submit", "called", values, "none")
                     /\ isSubmitting' = TRUE
                     /\ createPending' = TRUE
                     /\ createArg' = values
    /\ UNCHANGED <<page, query, values, availableAssets, selectedAsset,
                   isLoading, fetchPending, notifications, clash>>
    /\ UNCHANGED <<pathname, authRest>>

\* new.tsx 116-126, 131-133: createTransfer resolved with a transfer of _id id
CreateResolve(id) ==
    /\ createPending
    /\ createPending' = FALSE
    /\ notifications' = notifications + 1
    /\ pathname' = transferRoute(id)
    /\ isSubmitting' = FALSE
    /\ pageEv' = PageReply("create", "resolved", createArg,
                           "Transfer created successfully", id)
    /\ UNCHANGED <<page, query, values, availableAssets, selectedAsset,
                   isLoading, fetchPending, createArg, clash>>
    /\ UNCHANGED authRest

\* new.tsx 128-133: createTransfer rejected with the error body `body`
CreateReject(body) ==
    /\ createPending
    /\ createPending' = FALSE
    /\ isSubmitting' = FALSE
    /\ pageEv' = PageReply("create", "rejected", createArg, errorMessage(body),
                           body)
    /\ UNCHANGED <<page, query, values, availableAssets, selectedAsset,
                   isLoading, fetchPending, createArg, notifications, clash>>
    /\ UNCHANGED <<pathname, authRest>>

\* A session on /transfers/new, as the auth flow leaves it, and the page
\* after its first render
TransferInit ==
    /\ user \in RemoteUsers \cup {Null}
    /\ token = IF Present(user) THEN "t1" ELSE NoToken
    /\ isAuthenticated = Present(user)
    /\ isInitialized = TRUE
    /\ pathname = "/transfers/new"
    /\ mounted = TRUE
    /\ loginPending = 0
    /\ logoutPending = 0
    /\ loginSucceeded = TRUE
    /\ initRuns = 1
    /\ initThrew = FALSE
    /\ lastWrite = IF Present(user) THEN Written("login", "t1", user, TRUE)
                                   ELSE Written("login", NoToken, Null, FALSE)
    /\ ev = Quiet("navigate", "/transfers/new")
    /\ \E assetId \in QueryAssets : PageRendered(user, assetId)

TransferNext ==
    \/ PageMount
    \/ \E assets \in SUBSET Catalogue : FetchResolve(assets)
    \/ FetchReject
    \/ \E a \in Catalogue \cup {""} : ChangeAsset(a)
    \/ \E b \in bases \cup {""} : ChangeFromBase(b)
    \/ \E b \in bases \cup {""} : ChangeToBase(b)
    \/ \E q \in Quantities : ChangeQuantity(q)
    \/ Submit
    \/ \E id \in TransferIds : CreateResolve(id)
    \/ \E body \in ErrorBodies : CreateReject(body)

TransferSpec == TransferInit /\ [][TransferNext]_vars

----------------------------------------------------------------------------
(* Claims about the auth flow, checked under Spec *)

\* C1: once initialization has completed and no login has succeeded since
\* the load, the session is unauthenticated, the user is absent and local
\* storage holds no token, whatever token it held before the load.
C1_CleanAfterInit ==
    (isInitialized /\ ~loginSucceeded) =>
        (~isAuthenticated /\ ~Present(user) /\ token = NoToken)

\* C1 witness: initialization has just run on a load that found a token
C1_Witness ==
    /\ ev.op = "init"
    /\ ev.before.token # NoToken
    /\ isInitialized /\ ~loginSucceeded
    /\ token = NoToken

\* C2 (the claim as stated): isAuthenticated is true only if the current
\* user is present.
C2_AuthenticatedOnlyWithUser == isAuthenticated => Present(user)

\* C3: every logout call ends with the token removed, the user absent,
\* isAuthenticated false and the route /login, whether the remote call
\* succeeded or failed, and the caller's promise resolves.
C3_LogoutAlwaysClears ==
    ev.op = "logout" =>
        /\ token = NoToken
        /\ ~Present(user)
        /\ ~isAuthenticated
        /\ pathname = "/login"
        /\ ev.outcome = "resolved"

\* C3 witness: a logout of an authenticated session on another route whose
\* remote call failed
C3_Witness ==
    /\ ev.op = "logout" /\ ev.remote = "failed"
    /\ ev.before.isAuthenticated
    /\ ev.before.token # NoToken
    /\ ev.before.pathname # "/login"

\* C4: when the remote login call returns a token and a user, then as login
\* completes local storage holds exactly that token, the current user is
\* that user, isAuthenticated is true and the caller receives that user.
C4_LoginSuccess ==
    (ev.op = "login" /\ ev.remote = "ok"
        /\ ev.resp.token # Undefined /\ ev.resp.user # Undefined) =>
        /\ token = ev.resp.token
        /\ user = ev.resp.user
        /\ isAuthenticated
        /\ ev.outcome = "resolved"
        /\ ev.value = ev.resp.user

\* C4 witness: a login that replaced another user's session
C4_Witness ==
    /\ ev.op = "login" /\ ev.remote = "ok"
    /\ ev.resp.token = "t2" /\ ev.resp.user = "admin"
    /\ ev.before.token = "t1" /\ ev.before.user = "commander"
    /\ token = "t2"

\* C5: when the remote login call fails, then as login completes the token
\* is absent, the user is absent, isAuthenticated is false, the route is
\* the one before the call completed, and the caller's promise rejects.
C5_LoginFailure ==
    (ev.op = "login" /\ ev.remote = "failed") =>
        /\ token = NoToken
        /\ ~Present(user)
        /\ ~isAuthenticated
        /\ pathname = ev.before.pathname
        /\ ev.outcome = "rejected"
        /\ ev.value = "error"

\* C5 witness: a failed login on a session that was authenticated
C5_Witness ==
    /\ ev.op = "login" /\ ev.remote = "failed"
    /\ ev.before.isAuthenticated
    /\ Present(ev.before.user)
    /\ ev.before.token # NoToken

\* C6 (the claim as stated): when initialization runs, a route that is not
\* public becomes /login and a public route is left unchanged.
C6_InitRedirects ==
    ev.op = "init" =>
        pathname = IF ev.before.pathname \in PublicRoutes
                     THEN ev.before.pathname
                     ELSE "/login"

\* C7 (the claim as stated): once initialization has completed, no state has
\* a route that is not public while isAuthenticated is false.
C7_NoProtectedRouteUnauthenticated ==
    isInitialized => ~(pathname \notin PublicRoutes /\ ~isAuthenticated)

\* C8: every step in which isAuthenticated turns true, the user turns
\* present or a token appears in local storage is the completion of a login
\* call whose remote call succeeded.
C8_PopulatedOnlyByLogin ==
    [][(\/ ~isAuthenticated /\ isAuthenticated'
        \/ ~Present(user) /\ Present(user')
        \/ token = NoToken /\ token' # NoToken)
       => (ev'.op = "login" /\ ev'.remote = "ok" /\ loginPending' = loginPending - 1)]_vars

\* C8 witness: a successful login has populated an empty session
C8_Witness ==
    /\ ev.op = "login" /\ ev.remote = "ok"
    /\ ~ev.before.isAuthenticated /\ ~Present(ev.before.user)
    /\ ev.before.token = NoToken
    /\ isAuthenticated /\ Present(user) /\ token # NoToken

\* C9: within a load the body of initAuth runs at most once; isInitialized,
\* once true, stays true; the mount effect leaves it true even when the body
\* throws; and the mount effect does not touch a session that a login of
\* the same load has established.
C9_InitOncePerLoad ==
    [][/\ initRuns' <= 1
       /\ (isInitialized /\ ev'.op # "load") => isInitialized'
       /\ (~mounted /\ mounted') => isInitialized'
       /\ (~mounted /\ mounted' /\ loginSucceeded) =>
              (token' = token /\ user' = user /\ isAuthenticated' = isAuthenticated)
      ]_vars

\* C9 witness: AuthProvider is mounted again after a login succeeded, in a
\* load whose initialization threw
C9_Witness ==
    /\ ev.op = "initSkip"
    /\ initThrew /\ initRuns = 1
    /\ loginSucceeded /\ isAuthenticated /\ token # NoToken
    /\ isInitialized

----------------------------------------------------------------------------
(* Claims about the transfer-creation page, checked under TransferSpec *)

\* C10: form values whose destination base equals the source base fail
\* validation, so no createTransfer call carries toBase equal to fromBase,
\* also when the asset effect overwrote fromBase after toBase was chosen.
C10_SameBaseNeverSent ==
    /\ (pageEv.op = "submit" /\ pageEv.sent.toBase = pageEv.sent.fromBase)
           => pageEv.outcome = "invalid"
    /\ (pageEv.op = "submit" /\ pageEv.outcome = "called")
           => pageEv.sent.toBase # pageEv.sent.fromBase
    /\ createPending => createArg.toBase # createArg.fromBase

\* C10 witness: a submission of otherwise valid values whose fromBase the
\* asset effect set to the toBase chosen before
C10_Witness ==
    /\ pageEv.op = "submit"
    /\ clash
    /\ selectedAsset # Null
    /\ values.toBase # "" /\ values.toBase = values.fromBase
    /\ TransferSchemaErrors(values) = {"toBase"}
    /\ ~exceedsAvailable(values, selectedAsset)

\* C11: a submission whose quantity is greater than the selected asset's
\* available quantity is rejected on the client: no createTransfer call is
\* made, the route stays, and isSubmitting is false afterwards.
C11_ExcessQuantityRejected ==
    (/\ pageEv.op = "submit"
     /\ selectedAsset # Null
     /\ pageEv.sent.quantity > 2 * AvailableOf(selectedAsset)) =>
        /\ pageEv.outcome \in {"invalid", "rejected"}
        /\ ~createPending
        /\ ~isSubmitting
        /\ pathname = "/transfers/new"
        /\ notifications = 0

\* C11 witness: valid values for asset a1 (2 available) with quantity 3 were
\* submitted and turned down by onSubmit's own check
C11_Witness ==
    /\ pageEv.op = "submit" /\ pageEv.outcome = "rejected"
    /\ selectedAsset = "a1"
    /\ pageEv.sent.quantity = 6
    /\ pageEv.toast = "Cannot transfer more than available quantity"
    /\ ~isSubmitting /\ ~createPending

\* C12 (the claim as stated): every createTransfer call carries a quantity
\* that is a positive whole number not above the available quantity of the
\* asset its asset id names, also when that id came from the URL and is not
\* among the assets kept after the fetch.
C12_SentQuantityWithinAvailable ==
    (pageEv.op = "submit" /\ pageEv.outcome = "called") =>
        /\ pageEv.sent.quantity > 0
        /\ IsWhole(pageEv.sent.quantity)
        /\ pageEv.sent.quantity <= 2 * AvailableOf(pageEv.sent.asset)

\* C13: for a present user whose role is neither Admin nor LogisticsOfficer
\* the page toasts an error and navigates to /transfers when its effects
\* run, never shows the form and never calls createTransfer; an Admin or a
\* LogisticsOfficer is not redirected.
C13_RoleGate ==
    LET allowed == RoleOf(user) \in {"Admin", "LogisticsOfficer"}
        denied == "You do not have permission to create transfers"
    IN  /\ (Present(user) /\ ~allowed) =>
               /\ ~FormShown
               /\ ~createPending
               /\ pageEv.op \in {"render", "mount", "fetch"}
               /\ notifications = 0
               /\ page = "mounted" => pathname = "/transfers"
               /\ pageEv.op = "mount" => pageEv.toast = denied
        /\ (Present(user) /\ allowed) =>
               /\ pathname # "/transfers"
               /\ pageEv.toast # denied

\* C13 witness: a BaseCommander's page after its effects ran and the assets
\* arrived: redirected, with assets to offer and still no form
C13_Witness ==
    /\ RoleOf(user) = "BaseCommander"
    /\ page = "mounted"
    /\ pageEv.op = "fetch" /\ pageEv.outcome = "resolved"
    /\ availableAssets # {}
    /\ ~isLoading
    /\ pathname = "/transfers"

\* C14: when a createTransfer call settles: on success one notification is
\* added, the success toast is shown and the route becomes /transfers/<_id>
\* of the transfer created; on failure no notification is added, the route
\* stays, and the toast is the service's error message, or the default one
\* when there is none; either way isSubmitting is false afterwards.
C14_CreateOutcome ==
    [][(createPending /\ pageEv'.op = "create") =>
          /\ ~isSubmitting'
          /\ ~createPending'
          /\ IF pageEv'.outcome = "resolved"
               THEN /\ notifications' = notifications + 1
                    /\ pathname' = "/transfers/" \o pageEv'.reply
                    /\ pageEv'.reply \in TransferIds
                    /\ pageEv'.toast = "Transfer created successfully"
               ELSE /\ notifications' = notifications
                    /\ pathname' = pathname
                    /\ pageEv'.toast = IF pageEv'.reply \in {Undefined, ""}
                                         THEN "Failed to create transfer"
                                         ELSE pageEv'.reply
      ]_vars

\* C14 witness: a createTransfer call was rejected with a message of the
\* service, after the form was changed while the call was in flight
C14_Witness ==
    /\ pageEv.op = "create" /\ pageEv.outcome = "rejected"
    /\ pageEv.reply = "Insufficient stock"
    /\ pageEv.toast = "Insufficient stock"
    /\ pageEv.sent # values
    /\ pathname = "/transfers/new"
    /\ notifications = 0
    /\ ~isSubmitting

----------------------------------------------------------------------------
(* Claims about overlapping calls and local storage, checked under Spec *)

\* C15: a login or logout call writes token, user and isAuthenticated in one
\* step when its remote call settles, so under any interleaving of
\* overlapping calls the session is what the call that settled last wrote,
\* in particular once every call has settled, and the stored token and the
\* current user come from the same login response.
C15_LastWriteWins ==
    /\ lastWrite.by # "none" =>
           /\ token = lastWrite.token
           /\ user = lastWrite.user
           /\ isAuthenticated = lastWrite.isAuthenticated
    /\ (lastWrite.by # "none" /\ loginPending = 0 /\ logoutPending = 0) =>
           <<token, user, isAuthenticated>> =
               <<lastWrite.token, lastWrite.user, lastWrite.isAuthenticated>>
    /\ (isAuthenticated /\ lastWrite.by # "none") =>
           (lastWrite.by = "login" /\ token = lastWrite.token /\ user = lastWrite.user)

\* C15 witness: a login resolved over the session of another login while a
\* further login and a logout are still in flight
C15_Witness ==
    /\ ev.op = "login" /\ ev.remote = "ok"
    /\ loginPending >= 1 /\ logoutPending >= 1
    /\ ev.before.isAuthenticated
    /\ ev.before.token = "t1" /\ token = "t2"
    /\ Present(ev.before.user) /\ Present(user) /\ ev.before.user # user

\* C16: once initialization has completed, between the steps of the auth
\* operations, a token is present in local storage if and only if
\* isAuthenticated is true, after any sequence of login, logout and
\* register calls.
C16_TokenIffAuthenticated ==
    isInitialized => ((token # NoToken) <=> isAuthenticated)

\* C16 witness: after initialization, a login whose response carried no token
\* has stored the text "undefined" and set isAuthenticated, with a logout
\* and a register already behind it
C16_Witness ==
    /\ isInitialized
    /\ ev.op = "login" /\ ev.remote = "ok"
    /\ ev.resp.token = Undefined
    /\ token = "undefined" /\ isAuthenticated
    /\ ~ev.before.isAuthenticated /\ ev.before.token = NoToken

====
